---- MODULE Spec2Model ----
(***************************************************************************)
(* Model of the MM-LRC-to-VTT lyrics generator:                            *)
(*   dsc/__init__.py   parse_dsc (decoder generator), save_dsc (encoder)   *)
(*   __main__.py       PvDb (database parser and lookups), get_times,      *)
(*                     time_from_timestamp, create_lyrics, convert_all     *)
(*                                                                         *)
(* Bytes are integers 0..255, byte strings are sequences of bytes.  Text   *)
(* strings are sequences of tokens; every token is a piece of text that    *)
(* the string operations of the program never split.                       *)
(*                                                                         *)
(* Four specifications share the module:                                   *)
(*   Spec       a script file is decoded, then the records are re-encoded  *)
(*   SpecTimes  get_times walks a command list                             *)
(*   SpecDb     a database text is parsed and queried, lyrics are joined   *)
(*   SpecBatch  convert_all converts the songs of a database one by one    *)
(***************************************************************************)
EXTENDS Integers, Sequences, FiniteSets, TLC

VARIABLES
    stream,     \* the bytes of the script file handed to parse_dsc
    gen,        \* the parse_dsc generator: position, control state, records yielded, error
    enc,        \* the save_dsc call: index of the next record, bytes written, control state
    dsc,        \* the command list handed to get_times
    tl,         \* the get_times loop: index, local `time`, local `times`
    items,      \* the database lines handed to PvDb.parse
    db,         \* the PvDb object: parse outcome and self.data
    query,      \* the last lookup made on the database and its outcome
    fs,         \* the script files on disk under `source`: path -> bytes
    batch       \* the convert_all run: the per-song files, loop index, files written

codecVars == <<stream, gen, enc>>
timesVars == <<dsc, tl>>
dbVars    == <<items, db, query>>
batchVars == <<fs, batch>>
vars      == <<stream, gen, enc, dsc, tl, items, db, query, fs, batch>>

(***************************************************************************)
(* Bounds of the model.                                                    *)
(***************************************************************************)
MaxWords == 5      \* 4-byte words following the header of a script file
MaxCmds  == 4      \* commands in a list handed to get_times
MaxLines == 3      \* lines of a database text
MaxSongs == 3      \* songs of a batch

(***************************************************************************)
(* Generic helpers.                                                        *)
(***************************************************************************)
Min(a, b) == IF a < b THEN a ELSE b

SeqsUpTo(S, n) == UNION { [1..k -> S] : k \in 0..n }

RECURSIVE Flatten(_)
Flatten(ss) == IF ss = <<>> THEN <<>> ELSE Head(ss) \o Flatten(Tail(ss))

\* Python slicing s[a:b] with 0 <= a, clipped to the end of s.
Slice(s, a, b) == SubSeq(s, a + 1, Min(b, Len(s)))

(***************************************************************************)
(* Opcode Table (dsc/opcodes.py, get_opcodes): id -> (name, word count).   *)
(* END has no parameters, TIME has one word, LYRIC has its line index in   *)
(* the first word of its payload.                                          *)
(***************************************************************************)
get_opcodes ==
    (0 :> <<"END", 0>>) @@ (1 :> <<"TIME", 1>>) @@ (24 :> <<"LYRIC", 2>>)

(***************************************************************************)
(* struct.unpack('<i', b)[0] and struct.pack('<i', n): 32-bit signed       *)
(* little-endian.  The top byte is folded first so that every intermediate *)
(* value stays within 32 bits.                                             *)
(***************************************************************************)
struct_unpack_i(b) ==
    b[1] + 256 * b[2] + 65536 * b[3]
      + 16777216 * (IF b[4] >= 128 THEN b[4] - 256 ELSE b[4])

struct_pack_i(n) ==
    << n % 256, (n \div 256) % 256, (n \div 65536) % 256, (n \div 16777216) % 256 >>

\* int.from_bytes(b, 'little'): unsigned, any length.
RECURSIVE int_from_bytes(_)
int_from_bytes(b) ==
    IF b = <<>> THEN 0 ELSE Head(b) + 256 * int_from_bytes(Tail(b))

(***************************************************************************)
(* Script files: a 4-byte header, then up to MaxWords words, the last      *)
(* bytes possibly missing (a file cut short).                              *)
(***************************************************************************)
Header == <<32, 2, 2, 18>>

Words == { <<0, 0, 0, 0>>, <<1, 0, 0, 0>>, <<24, 0, 0, 0>>, <<255, 255, 255, 255>> }

Streams ==
    { SubSeq(Header \o Flatten(ws), 1, Len(Header) + 4 * Len(ws) - cut) :
        ws \in SeqsUpTo(Words, MaxWords), cut \in 0..3 }

(***************************************************************************)
(* parse_dsc.  The generator state g is [pos, pc, out, err]:               *)
(*   pos  bytes consumed from the file                                     *)
(*   pc   "magic"   the generator has not run yet                          *)
(*        "loop"    suspended at the yield (or about to test the loop)     *)
(*        "done"    the loop ended on an empty read                        *)
(*        "unknown" DscUnknownCommand was raised, err is its command_id    *)
(*        "struct"  struct.error: fewer than 4 id bytes were left          *)
(*   out  the records yielded so far                                       *)
(***************************************************************************)
GenInit == [pos |-> 0, pc |-> "magic", out |-> <<>>, err |-> 0]

parse_dsc_magic(s, g) ==
    [g EXCEPT !.pos = Min(g.pos + 4, Len(s)), !.pc = "loop"]

parse_dsc_skip_unknown(s, g) ==
    LET command_bytes == Slice(s, g.pos, g.pos + 4)
        p1 == g.pos + Len(command_bytes)
    IN  IF Len(command_bytes) = 0 THEN [g EXCEPT !.pc = "done"]
        ELSE IF Len(command_bytes) < 4 THEN [g EXCEPT !.pos = p1, !.pc = "struct"]
        ELSE LET command_id == struct_unpack_i(command_bytes)
                 codes == get_opcodes
             IN  IF command_id \notin DOMAIN codes
                 THEN [g EXCEPT !.pos = p1]
                 ELSE LET name == codes[command_id][1]
                          length == codes[command_id][2]
                          data == Slice(s, p1, p1 + length * 4)
                      IN  [g EXCEPT !.pos = p1 + Len(data),
                                    !.out = Append(g.out, <<command_id, name, data>>)]

\* One iteration of `while command_bytes := dsc.read(4)`, to the next yield.
parse_dsc_next(s, g) ==
    LET command_bytes == Slice(s, g.pos, g.pos + 4)
        p1 == g.pos + Len(command_bytes)
    IN  IF Len(command_bytes) = 0 THEN [g EXCEPT !.pc = "done"]
        ELSE IF Len(command_bytes) < 4 THEN [g EXCEPT !.pos = p1, !.pc = "struct"]
        ELSE LET command_id == struct_unpack_i(command_bytes)
                 codes == get_opcodes
             IN  IF command_id \notin DOMAIN codes
                 THEN [g EXCEPT !.pos = p1, !.pc = "unknown", !.err = command_id]
                 ELSE LET name == codes[command_id][1]
                          length == codes[command_id][2]
                          data == Slice(s, p1, p1 + length * 4)
                      IN  [g EXCEPT !.pos = p1 + Len(data),
                                    !.out = Append(g.out, <<command_id, name, data>>)]

\* list(parse_dsc(f)): the generator run to its end.
RECURSIVE parse_dsc_run(_, _)
parse_dsc_run(s, g) ==
    IF g.pc = "magic" THEN parse_dsc_run(s, parse_dsc_magic(s, g))
    ELSE IF g.pc = "loop" THEN parse_dsc_run(s, parse_dsc_next(s, g))
    ELSE g

parse_dsc(s) == parse_dsc_run(s, GenInit)

(***************************************************************************)
(* save_dsc.  The call state e is [i, pc, sink, err]:                      *)
(*   i     records handled so far                                          *)
(*   pc    "idle" not called, "loop" inside the for loop, "done" returned, *)
(*         "unknown" DscUnknownCommand raised, "invalid" DscInvalidData    *)
(*   sink  the bytes written to the file                                   *)
(***************************************************************************)
EncInit == [i |-> 0, pc |-> "idle", sink |-> <<>>, err |-> 0]

\* One iteration of `for command_id, name, data in commands`.
save_dsc_next(commands, e) ==
    IF e.i = Len(commands) THEN [e EXCEPT !.pc = "done"]
    ELSE LET command_id == commands[e.i + 1][1]
             data == commands[e.i + 1][3]
             codes == get_opcodes
         IN  IF command_id \notin DOMAIN codes
             THEN [e EXCEPT !.pc = "unknown", !.err = command_id]
             ELSE LET bytes_id == struct_pack_i(command_id)
                      length == codes[command_id][2]
                  IN  IF Len(data) = length
                      THEN [e EXCEPT !.pc = "invalid", !.err = command_id]
                      ELSE [e EXCEPT !.i = e.i + 1,
                                     !.sink = e.sink \o bytes_id \o data]

(***************************************************************************)
(* Python dicts keep insertion order: a dict is a sequence of <<key,        *)
(* value>> pairs with distinct keys; assigning to a key that is present     *)
(* replaces its value in place.                                            *)
(***************************************************************************)
DictKeys(d) == { d[j][1] : j \in 1..Len(d) }

DictGet(d, k) == d[CHOOSE j \in 1..Len(d) : d[j][1] = k][2]

DictSetFirstWins(d, k, v) ==
    IF k \in DictKeys(d) THEN d ELSE Append(d, <<k, v>>)

DictSet(d, k, v) ==
    IF k \in DictKeys(d)
    THEN [j \in 1..Len(d) |-> IF d[j][1] = k THEN <<k, v>> ELSE d[j]]
    ELSE Append(d, <<k, v>>)

(***************************************************************************)
(* time_from_timestamp.  A value of the local `time` of get_times is       *)
(* either the int it starts as or a datetime.time; the two never compare   *)
(* equal and hash apart, so they are distinct dict keys.                   *)
(*                                                                         *)
(* ts / 100000 is a float; the hour, minute and second parts come out      *)
(* exact, the microsecond part int((seconds - int(seconds)) * 1000000)     *)
(* is the exact product truncated after rounding error: for the            *)
(* timestamps of FloatBelow the double product lies just under the exact   *)
(* value and the truncation loses one microsecond (397 -> 3969).           *)
(***************************************************************************)
TicksPerSecond == 100000

FloatBelow == {397}

PyInt(n) == [cls |-> "int", value |-> n]

PyTime(h, m, s, us) ==
    [cls |-> "time", hour |-> h, minute |-> m, second |-> s, microsecond |-> us]

time_from_timestamp(ts) ==
    LET whole == ts \div TicksPerSecond
        hours == whole \div 3600
        minutes == (whole % 3600) \div 60
        seconds == whole % 60
        exact == (ts % TicksPerSecond) * (1000000 \div TicksPerSecond)
        microseconds == IF ts \in FloatBelow THEN exact - 1 ELSE exact
    IN  PyTime(hours, minutes, seconds, microseconds)

(***************************************************************************)
(* get_times.  The loop state t is [i, pc, time, times]: i commands        *)
(* handled, pc "idle" | "loop" | "done".                                   *)
(***************************************************************************)
TimeInitial == PyInt(0)

TlInit == [i |-> 0, pc |-> "loop", time |-> TimeInitial, times |-> <<>>]

get_times_first_wins(cmds, t) ==
    IF t.i = Len(cmds) THEN [t EXCEPT !.pc = "done"]
    ELSE LET id_ == cmds[t.i + 1][1]
             params == cmds[t.i + 1][3]
         IN  IF id_ = 1
             THEN [t EXCEPT !.i = t.i + 1,
                            !.time = time_from_timestamp(int_from_bytes(params))]
             ELSE IF id_ = 24
             THEN [t EXCEPT !.i = t.i + 1,
                            !.times = DictSetFirstWins(t.times, t.time,
                                          int_from_bytes(Slice(params, 0, 4)))]
             ELSE [t EXCEPT !.i = t.i + 1]

\* One iteration of `for id_, _, params in dsc`.
get_times_next(cmds, t) ==
    IF t.i = Len(cmds) THEN [t EXCEPT !.pc = "done"]
    ELSE LET id_ == cmds[t.i + 1][1]
             params == cmds[t.i + 1][3]
         IN  IF id_ = 1
             THEN [t EXCEPT !.i = t.i + 1,
                            !.time = time_from_timestamp(int_from_bytes(params))]
             ELSE IF id_ = 24
             THEN [t EXCEPT !.i = t.i + 1,
                            !.times = DictSet(t.times, t.time,
                                          int_from_bytes(Slice(params, 0, 4)))]
             ELSE [t EXCEPT !.i = t.i + 1]

RECURSIVE get_times_run(_, _)
get_times_run(cmds, t) ==
    IF t.pc = "loop" THEN get_times_run(cmds, get_times_next(cmds, t)) ELSE t

get_times(cmds) == get_times_run(cmds, TlInit).times

(***************************************************************************)
(* Command lists handed to get_times: records as parse_dsc yields them.    *)
(* 160,134,1,0 is 100000 (one second), 141,1,0,0 is 397.                   *)
(***************************************************************************)
CmdEnd == <<0, "END", <<>>>>

CmdTime(b) == <<1, "TIME", b>>

CmdLyric(b) == <<24, "LYRIC", b \o <<0, 0, 0, 0>>>>

Commands ==
    { CmdEnd,
      CmdTime(<<0, 0, 0, 0>>), CmdTime(<<160, 134, 1, 0>>), CmdTime(<<141, 1, 0, 0>>),
      CmdLyric(<<5, 0, 0, 0>>), CmdLyric(<<1, 0, 0, 0>>) }

(***************************************************************************)
(* Text.  A string is a sequence of tokens.  The tokens are chosen so that *)
(* no separator or prefix the program looks for ('=', '.', '#', '_',       *)
(* 'lyric', 'pv_', whitespace) lies inside a token or across two tokens of *)
(* a string of the model, so str.split, str.replace, str.strip and         *)
(* str.startswith act on whole tokens.                                     *)
(***************************************************************************)
Whitespace == {" ", "\n"}

DigitValue ==
    ("0" :> 0) @@ ("1" :> 1) @@ ("2" :> 2) @@ ("3" :> 3) @@ ("4" :> 4) @@
    ("5" :> 5) @@ ("6" :> 6) @@ ("7" :> 7) @@ ("8" :> 8) @@ ("9" :> 9)

RECURSIVE lstrip(_, _)
lstrip(s, chars) ==
    IF s # <<>> /\ Head(s) \in chars THEN lstrip(Tail(s), chars) ELSE s

RECURSIVE rstrip(_, _)
rstrip(s, chars) ==
    IF s # <<>> /\ s[Len(s)] \in chars THEN rstrip(SubSeq(s, 1, Len(s) - 1), chars) ELSE s

\* str.strip(chars)
strip(s, chars) == rstrip(lstrip(s, chars), chars)

\* str.startswith(tok)
startswith(s, tok) == s # <<>> /\ Head(s) = tok

\* str.replace(tok, '')
replace(s, tok) == LET Keep(t) == t # tok IN SelectSeq(s, Keep)

\* str.split(sep): always at least one piece.
RECURSIVE split(_, _)
split(s, sep) ==
    IF \E j \in 1..Len(s) : s[j] = sep
    THEN LET j == CHOOSE m \in 1..Len(s) : s[m] = sep /\ \A o \in 1..(m - 1) : s[o] # sep
         IN  <<SubSeq(s, 1, j - 1)>> \o split(SubSeq(s, j + 1, Len(s)), sep)
    ELSE <<s>>

\* int(text) succeeds on a non-empty run of digits (the only numerals of the model).
IsIntText(s) == s # <<>> /\ \A j \in 1..Len(s) : s[j] \in DOMAIN DigitValue

RECURSIVE py_int(_)
py_int(s) ==
    IF s = <<>> THEN 0 ELSE 10 * py_int(SubSeq(s, 1, Len(s) - 1)) + DigitValue[s[Len(s)]]

(***************************************************************************)
(* PvDb.parse and its two inner functions.                                 *)
(***************************************************************************)
is_comment(line) ==
    LET l == strip(line, Whitespace)
    IN  Len(l) = 0 \/ startswith(l, "#")

\* line.split('=', 1) unpacked into two names: ValueError when there is no '='.
handle_line_ok(line) == \E j \in 1..Len(line) : line[j] = "="

handle_line(line) ==
    LET l == strip(line, Whitespace)
        j == CHOOSE m \in 1..Len(l) : l[m] = "=" /\ \A o \in 1..(m - 1) : l[o] # "="
    IN  <<split(SubSeq(l, 1, j - 1), "."), SubSeq(l, j + 1, Len(l))>>

RECURSIVE parse_dropping(_)
parse_dropping(lines) ==
    IF lines = <<>> THEN [pc |-> "ok", data |-> <<>>]
    ELSE LET rest == parse_dropping(Tail(lines))
         IN  IF is_comment(Head(lines)) \/ ~handle_line_ok(Head(lines)) THEN rest
             ELSE [rest EXCEPT !.data = <<handle_line(Head(lines))>> \o rest.data]

\* [handle_line(line) for line in items if not is_comment(line)]: the first
\* exception ends the comprehension and nothing is returned.
RECURSIVE parse(_)
parse(lines) ==
    IF lines = <<>> THEN [pc |-> "ok", data |-> <<>>]
    ELSE IF is_comment(Head(lines)) THEN parse(Tail(lines))
    ELSE IF ~handle_line_ok(Head(lines)) THEN [pc |-> "error", data |-> <<>>]
    ELSE LET rest == parse(Tail(lines))
         IN  IF rest.pc = "error" THEN rest
             ELSE [rest EXCEPT !.data = <<handle_line(Head(lines))>> \o rest.data]

(***************************************************************************)
(* PvDb lookups.  An outcome is [pc |-> "ok" | "error", value |-> ...].    *)
(***************************************************************************)
Raised == [pc |-> "error", value |-> <<>>]

Returned(v) == [pc |-> "ok", value |-> v]

song_of(key) == replace(key[1], "pv_")

get_song_data(data, song_id) ==
    IF \E j \in 1..Len(data) : ~IsIntText(song_of(data[j][1]))
    THEN Raised
    ELSE LET Match(e) == py_int(song_of(e[1])) = song_id
         IN  Returned(SelectSeq(data, Match))

get_dsc_files(data) ==
    LET IsScript(e) == e[1][Len(e[1])] = <<"script_file_name">>
        found == SelectSeq(data, IsScript)
    IN  [j \in 1..Len(found) |-> <<found[j][1][1], found[j][2]>>]

\* sorted(data, key=lambda item: item[1]): stable, ascending.
RECURSIVE sorted_by_index(_)
sorted_by_index(rows) ==
    IF rows = <<>> THEN <<>>
    ELSE LET lo == CHOOSE v \in { rows[j][2] : j \in 1..Len(rows) } :
                       \A j \in 1..Len(rows) : v <= rows[j][2]
             IsLo(r) == r[2] = lo
             NotLo(r) == r[2] # lo
         IN  SelectSeq(rows, IsLo) \o sorted_by_index(SelectSeq(rows, NotLo))

RECURSIVE to_lyric_dict(_, _)
to_lyric_dict(rows, d) ==
    IF rows = <<>> THEN d
    ELSE LET item == Head(rows)
             lang == IF Len(item[1]) > 0 THEN item[1] ELSE <<"jp">>
         IN  to_lyric_dict(Tail(rows), DictSet(d, <<lang, item[2]>>, item[3]))

\* key[1].replace('lyric', '').strip('_')
lyric_language(segment) == strip(replace(segment, "lyric"), {"_"})

get_lyrics(data, song_id) ==
    LET sd == get_song_data(data, song_id)
    IN  IF sd.pc = "error" THEN Raised
        ELSE IF \E j \in 1..Len(sd.value) : Len(sd.value[j][1]) < 2 THEN Raised
        ELSE LET IsLyric(e) == startswith(e[1][2], "lyric")
                 found == SelectSeq(sd.value, IsLyric)
             IN  IF \E j \in 1..Len(found) :
                        Len(found[j][1]) < 3 \/ ~IsIntText(found[j][1][3])
                 THEN Raised
                 ELSE LET rows == [j \in 1..Len(found) |->
                                     << lyric_language(found[j][1][2]),
                                        py_int(found[j][1][3]),
                                        found[j][2] >>]
                      IN  Returned(to_lyric_dict(sorted_by_index(rows), <<>>))

(***************************************************************************)
(* create_lyrics: a dict language -> dict time -> text; the outer dict is  *)
(* built from a set, so it is a function on the languages.                 *)
(***************************************************************************)
join_lyrics_skip_missing(times, lyrics, lang) ==
    LET Has(e) == <<lang, e[2]>> \in DictKeys(lyrics)
        kept == SelectSeq(times, Has)
    IN  [j \in 1..Len(kept) |-> <<kept[j][1], DictGet(lyrics, <<lang, kept[j][2]>>)>>]

join_lyrics(times, lyrics, lang) ==
    [j \in 1..Len(times) |->
        << times[j][1],
           IF <<lang, times[j][2]>> \in DictKeys(lyrics)
           THEN DictGet(lyrics, <<lang, times[j][2]>>) ELSE <<>> >>]

create_lyrics(cmds, data, song_id) ==
    LET lyrics == get_lyrics(data, song_id)
    IN  IF lyrics.pc = "error" THEN Raised
        ELSE LET times == get_times(cmds)
                 languages == { k[1] : k \in DictKeys(lyrics.value) }
             IN  Returned([lang \in languages |-> join_lyrics(times, lyrics.value, lang)])

(***************************************************************************)
(* Database lines of the model and command lists to join them with.        *)
(***************************************************************************)
DbLines ==
    { <<"pv_", "1", ".", "lyric", ".", "1", "=", "a", "\n">>,
      <<"pv_", "1", ".", "lyric", "_", "en", ".", "0", "=", "b", "\n">>,
      <<"pv_", "1", ".", "lyric", "_", "jp", ".", "1", "=", "b", "\n">>,
      <<"pv_", "1", ".", "lyric", "_", "en", "_", ".", "1", "=", "a", "\n">>,
      <<"pv_", "2", ".", "lyric", "_", "en", ".", "1", "=", "a", "\n">>,
      <<" ", "pv_", "0", "1", ".", "lyric", "_", "en", ".", "1", "=", "b", " ", "\n">>,
      <<"pv_", "1", ".", "song_name", "_", "en", "=", "a", "=", "b", "\n">>,
      <<" ", "#", "a", "=", "b", "\n">>,
      <<" ", "\n">>,
      <<"pv_", "1", ".", "lyric", ".", "0", "\n">>,
      <<"a", "=", "b", "\n">> }

Songs == {1, 2}

DscChoices ==
    { <<>>,
      <<CmdLyric(<<1, 0, 0, 0>>)>>,
      <<CmdTime(<<0, 0, 0, 0>>), CmdLyric(<<1, 0, 0, 0>>),
        CmdTime(<<160, 134, 1, 0>>), CmdLyric(<<5, 0, 0, 0>>)>> }

(***************************************************************************)
(* convert_all.  The run state b is [pc, files, i, written]:               *)
(*   pc       "idle" | "loop" | "done" | "failed" (an exception left the   *)
(*            command)                                                     *)
(*   files    the defaultdict song id -> list of existing script paths     *)
(*   i        songs handled so far                                         *)
(*   written  the subtitle files written, one per (song, language)         *)
(* A script is looked up on disk by the path the database gives it         *)
(* relative to `source`.                                                   *)
(***************************************************************************)
get_song_name(data, song_id) ==
    LET sd == get_song_data(data, song_id)
    IN  IF sd.pc = "error" THEN Raised
        ELSE LET IsName(e) == e[1][Len(e[1])] = <<"song_name", "_", "en">>
                 found == SelectSeq(sd.value, IsName)
             IN  Returned(IF found = <<>> THEN [none |-> TRUE, text |-> <<>>]
                          ELSE [none |-> FALSE, text |-> found[1][2]])

exists(disk, path) == path \in DOMAIN disk

RECURSIVE collect_files(_, _, _)
collect_files(refs, disk, files) ==
    IF refs = <<>> THEN Returned(files)
    ELSE LET pv_text == replace(Head(refs)[1], "pv_")
             value == Head(refs)[2]
         IN  IF ~IsIntText(pv_text) THEN Raised
             ELSE LET pv == py_int(pv_text)
                      old == IF pv \in DictKeys(files) THEN DictGet(files, pv) ELSE <<>>
                  IN  collect_files(Tail(refs), disk,
                          IF exists(disk, value)
                          THEN DictSet(files, pv, Append(old, value))
                          ELSE files)

\* convert_all up to its conversion loop.
convert_all_start(lines, disk) ==
    LET parsed == parse(lines)
    IN  IF parsed.pc = "error" THEN [pc |-> "failed", files |-> <<>>, i |-> 0, written |-> {}]
        ELSE LET files == collect_files(get_dsc_files(parsed.data), disk, <<>>)
             IN  IF files.pc = "error"
                 THEN [pc |-> "failed", files |-> <<>>, i |-> 0, written |-> {}]
                 ELSE [pc |-> "loop", files |-> files.value, i |-> 0, written |-> {}]

\* One iteration of `for song_id, dsc_files in files.items()`.
convert_all_next(data, disk, b) ==
    IF b.i = Len(b.files) THEN [b EXCEPT !.pc = "done"]
    ELSE LET song_id == b.files[b.i + 1][1]
             selected_dsc == b.files[b.i + 1][2][1]
             g == parse_dsc(disk[selected_dsc])
         IN  IF g.pc # "done" THEN [b EXCEPT !.pc = "failed"]
             ELSE LET song_name == get_song_name(data, song_id)
                      lyrics == create_lyrics(g.out, data, song_id)
                  IN  IF song_name.pc = "error" \/ lyrics.pc = "error"
                      THEN [b EXCEPT !.pc = "failed"]
                      ELSE [b EXCEPT
                              !.i = b.i + 1,
                              !.written = b.written \cup
                                  { [song |-> song_id, lang |-> lang,
                                     name |-> song_name.value,
                                     lyrics |-> lyrics.value[lang]] :
                                    lang \in DOMAIN lyrics.value }]

(***************************************************************************)
(* Batches: songs 1..n, each with a script reference, a song name and two  *)
(* lyric lines in the database; any subset of the scripts is on disk.      *)
(***************************************************************************)
ScriptPath(n) == <<"script/pv_", ToString(n), ".dsc">>

SongLines(n) ==
    << <<"pv_", ToString(n), ".", "script_file_name", "=">> \o ScriptPath(n) \o <<"\n">>,
       <<"pv_", ToString(n), ".", "song_name", "_", "en", "=", "a", "\n">>,
       <<"pv_", ToString(n), ".", "lyric", ".", "1", "=", "a", "\n">>,
       <<"pv_", ToString(n), ".", "lyric", "_", "en", ".", "1", "=", "b", "\n">> >>

BatchDb(n) == Flatten([j \in 1..n |-> SongLines(j)])

BatchStreams ==
    { Header,
      Header \o <<1, 0, 0, 0>> \o <<160, 134, 1, 0>>
             \o <<24, 0, 0, 0>> \o <<1, 0, 0, 0>> \o <<0, 0, 0, 0>>,
      Header \o <<255, 255, 255, 255>>,
      Header \o <<0, 0, 0, 0>> \o <<1, 0>> }

(***************************************************************************)
(* Spec: read_dsc then save_dsc on what it returned.                       *)
(***************************************************************************)
TimesIdle == dsc = <<>> /\ tl = [i |-> 0, pc |-> "idle", time |-> TimeInitial, times |-> <<>>]
DbIdle    == items = <<>> /\ db = [pc |-> "idle", data |-> <<>>] /\ query = [op |-> "none"]
BatchIdle == fs = <<>> /\ batch = [pc |-> "idle"]
CodecIdle == stream = <<>> /\ gen = GenInit /\ enc = EncInit

Init ==
    /\ stream \in Streams
    /\ gen = GenInit
    /\ enc = EncInit
    /\ TimesIdle /\ DbIdle /\ BatchIdle

ParseMagic ==
    /\ gen.pc = "magic"
    /\ gen' = parse_dsc_magic(stream, gen)
    /\ UNCHANGED <<stream, enc, timesVars, dbVars, batchVars>>

ParseNext ==
    /\ gen.pc = "loop"
    /\ gen' = parse_dsc_next(stream, gen)
    /\ UNCHANGED <<stream, enc, timesVars, dbVars, batchVars>>

\* save_dsc(path, read_dsc(path2)): only a decode that completed has a list to save.
SaveOpen ==
    /\ gen.pc = "done"
    /\ enc.pc = "idle"
    /\ enc' = [enc EXCEPT !.pc = "loop"]
    /\ UNCHANGED <<stream, gen, timesVars, dbVars, batchVars>>

SaveNext ==
    /\ enc.pc = "loop"
    /\ enc' = save_dsc_next(gen.out, enc)
    /\ UNCHANGED <<stream, gen, timesVars, dbVars, batchVars>>

Next == ParseMagic \/ ParseNext \/ SaveOpen \/ SaveNext

Spec == Init /\ [][Next]_vars

(***************************************************************************)
(* Claims about the codec, checked under Spec.                             *)
(***************************************************************************)
word_count(command_id) == get_opcodes[command_id][2]

\* The bytes a record occupies in a file: its id, then its payload.
RecordBytes(r) == struct_pack_i(r[1]) \o r[3]

EncodedRecords(recs) == Flatten([j \in 1..Len(recs) |-> RecordBytes(recs[j])])

\* A well-formed record stream from byte offset p on: complete records of known ids.
RECURSIVE WellFormedFrom(_, _)
WellFormedFrom(s, p) ==
    \/ p = Len(s)
    \/ /\ p + 4 <= Len(s)
       /\ struct_unpack_i(Slice(s, p, p + 4)) \in DOMAIN get_opcodes
       /\ LET k == word_count(struct_unpack_i(Slice(s, p, p + 4)))
          IN  p + 4 + 4 * k <= Len(s) /\ WellFormedFrom(s, p + 4 + 4 * k)

WellFormedStream(s) == Len(s) >= 4 /\ WellFormedFrom(s, 4)

GenEnded == gen.pc \in {"done", "unknown", "struct"}
EncEnded == enc.pc \in {"done", "unknown", "invalid"}

\* C1: decoding a well-formed stream and re-encoding the records completes without
\* error and writes exactly the bytes that follow the header, and no header.
C1_RoundTrip ==
    WellFormedStream(stream) =>
        /\ GenEnded => gen.pc = "done"
        /\ EncEnded => enc.pc = "done" /\ enc.sink = Slice(stream, 4, Len(stream))

\* C2: save_dsc raises DscInvalidData exactly when the payload length differs from
\* word_count * 4: a rejected record mismatches, every written record matches and
\* is written as its little-endian id followed by its payload.
C2_EncodeValidatesLength ==
    /\ enc.pc = "invalid" =>
            Len(gen.out[enc.i + 1][3]) # 4 * word_count(gen.out[enc.i + 1][1])
    /\ \A j \in 1..enc.i : Len(gen.out[j][3]) = 4 * word_count(gen.out[j][1])
    /\ enc.sink = EncodedRecords(SubSeq(gen.out, 1, enc.i))

\* C3: every record parse_dsc yields has a payload of exactly word_count * 4 bytes,
\* and the decode ends cleanly only on a record boundary.
C3_DecodeExactPayload ==
    /\ \A j \in 1..Len(gen.out) : Len(gen.out[j][3]) = 4 * word_count(gen.out[j][1])
    /\ (gen.pc = "done" /\ Len(stream) >= 4) => WellFormedStream(stream)

\* C4: when the decoder reaches an id that is not in the Opcode Table it raises
\* DscUnknownCommand carrying that id; the records before it have been yielded in
\* stream order, nothing is yielded for it, and only its 4 id bytes are consumed.
\* While no error is raised the bytes consumed are exactly the header and the
\* records yielded, so no id is skipped silently.
C4_UnknownCommand ==
    /\ gen.pc = "unknown" =>
        /\ gen.err \notin DOMAIN get_opcodes
        /\ gen.pos = 4 + Len(EncodedRecords(gen.out)) + 4
        /\ Slice(stream, 4, gen.pos - 4) = EncodedRecords(gen.out)
        /\ struct_pack_i(gen.err) = Slice(stream, gen.pos - 4, gen.pos)
        /\ enc.pc = "idle"
    /\ gen.pc \in {"loop", "done"} =>
        /\ gen.pos = Min(4, Len(stream)) + Len(EncodedRecords(gen.out))
        /\ \A j \in 1..Len(gen.out) : gen.out[j][1] \in DOMAIN get_opcodes

C4_Witness ==
    /\ gen.pc = "unknown"
    /\ gen.err = -1
    /\ Len(gen.out) >= 2
    /\ gen.pos < Len(stream)

(***************************************************************************)
(* SpecTimes: get_times on a command list.                                 *)
(***************************************************************************)
InitTimes ==
    /\ dsc \in SeqsUpTo(Commands, MaxCmds)
    /\ tl = TlInit
    /\ CodecIdle /\ DbIdle /\ BatchIdle

GetTimesNext ==
    /\ tl.pc = "loop"
    /\ tl' = get_times_next(dsc, tl)
    /\ UNCHANGED <<dsc, codecVars, dbVars, batchVars>>

NextTimes == GetTimesNext

SpecTimes == InitTimes /\ [][NextTimes]_vars

\* The lyric triggers among the first n commands, and the clock in force at
\* position j: that of the last set-time command before j, else the initial one.
Triggers(n) == { j \in 1..n : dsc[j][1] = 24 }

SetTimesBefore(j) == { k \in 1..(j - 1) : dsc[k][1] = 1 }

ClockAt(j) ==
    IF SetTimesBefore(j) = {} THEN TimeInitial
    ELSE LET k == CHOOSE m \in SetTimesBefore(j) : \A o \in SetTimesBefore(j) : o <= m
         IN  time_from_timestamp(int_from_bytes(dsc[k][3]))

LineIndex(j) == int_from_bytes(Slice(dsc[j][3], 0, 4))

\* C5: after any prefix of the command list, the Timeline Map has a key C exactly
\* when a lyric trigger occurred while the clock was C, the clock at a trigger being
\* that of the most recent set-time command before it; the value at C is the line
\* index of the last such trigger; other commands change neither clock nor map.
C5_OrderSensitiveLastWins ==
    LET n == tl.i
    IN  /\ DictKeys(tl.times) = { ClockAt(j) : j \in Triggers(n) }
        /\ Cardinality(DictKeys(tl.times)) = Len(tl.times)
        /\ \A j \in Triggers(n) :
              (\A k \in Triggers(n) : k > j => ClockAt(k) # ClockAt(j))
                  => DictGet(tl.times, ClockAt(j)) = LineIndex(j)
        /\ tl.time = ClockAt(n + 1)

\* set-time T1, trigger 5, set-time T2, trigger 5 with T1 # T2 gives {T1: 5, T2: 5}.
C5_Witness ==
    /\ tl.pc = "done"
    /\ Len(dsc) = 4
    /\ dsc[1][1] = 1 /\ dsc[2][1] = 24 /\ dsc[3][1] = 1 /\ dsc[4][1] = 24
    /\ LineIndex(2) = 5 /\ LineIndex(4) = 5
    /\ tl.times = << <<time_from_timestamp(0), 5>>, <<time_from_timestamp(397), 5>> >>

\* C6: the current clock starts as the zero Clock Value: every key of the Timeline
\* Map is a Clock Value, and a trigger that precedes every set-time command is
\* bound under the key of raw timestamp 0.
C6_InitialClockIsZero ==
    /\ \A k \in DictKeys(tl.times) : k.cls = "time"
    /\ (tl.i >= 1 /\ dsc[1][1] = 24) => time_from_timestamp(0) \in DictKeys(tl.times)

(***************************************************************************)
(* SpecDb: PvDb.from_file_text, then lookups on the object.                *)
(***************************************************************************)
InitDb ==
    /\ items \in SeqsUpTo(DbLines, MaxLines)
    /\ db = [pc |-> "idle", data |-> <<>>]
    /\ query = [op |-> "none"]
    /\ dsc = <<>>
    /\ tl = [i |-> 0, pc |-> "idle", time |-> TimeInitial, times |-> <<>>]
    /\ CodecIdle /\ BatchIdle

FromFileText ==
    /\ db.pc = "idle"
    /\ db' = parse(items)
    /\ UNCHANGED <<items, query, codecVars, timesVars, batchVars>>

\* A run of the program makes one lookup on the database it loaded.
GetLyrics ==
    /\ db.pc = "ok"
    /\ query.op = "none"
    /\ \E song_id \in Songs :
          LET r == get_lyrics(db.data, song_id)
          IN  query' = [op |-> "get_lyrics", song |-> song_id, pc |-> r.pc, value |-> r.value]
    /\ UNCHANGED <<items, db, codecVars, timesVars, batchVars>>

CreateLyrics ==
    /\ db.pc = "ok"
    /\ query.op = "none"
    /\ \E song_id \in Songs, d \in DscChoices :
          LET r == create_lyrics(d, db.data, song_id)
          IN  /\ dsc' = d
              /\ query' = [op |-> "create_lyrics", song |-> song_id,
                           pc |-> r.pc, value |-> r.value]
    /\ UNCHANGED <<items, db, tl, codecVars, batchVars>>

NextDb == FromFileText \/ GetLyrics \/ CreateLyrics

SpecDb == InitDb /\ [][NextDb]_vars

\* C7: create_lyrics returns one Output Map per language of the Lyric Map; each has
\* exactly the keys of the Timeline Map, in its order; the value at a clock is the
\* Lyric Map text of (language, index) when present and the empty string when absent.
C7_LyricAssembler ==
    (query.op = "create_lyrics" /\ get_lyrics(db.data, query.song).pc = "ok") =>
        LET lyric_map == get_lyrics(db.data, query.song).value
            timeline == get_times(dsc)
        IN  /\ query.pc = "ok"
            /\ DOMAIN query.value = { k[1] : k \in DictKeys(lyric_map) }
            /\ \A lang \in DOMAIN query.value :
                  /\ Len(query.value[lang]) = Len(timeline)
                  /\ \A j \in 1..Len(timeline) :
                        /\ query.value[lang][j][1] = timeline[j][1]
                        /\ query.value[lang][j][2] =
                              IF <<lang, timeline[j][2]>> \in DictKeys(lyric_map)
                              THEN DictGet(lyric_map, <<lang, timeline[j][2]>>)
                              ELSE <<>>

\* Two languages, two clocks: one language has a text at the first clock, the
\* other has none of its lines referenced and is all empty.
C7_Witness ==
    /\ query.op = "create_lyrics" /\ query.pc = "ok"
    /\ Cardinality(DOMAIN query.value) = 2
    /\ Len(get_times(dsc)) = 2
    /\ \E lang \in DOMAIN query.value : query.value[lang][1][2] # <<>>
    /\ \E lang \in DOMAIN query.value :
          \A j \in 1..Len(query.value[lang]) : query.value[lang][j][2] = <<>>

\* The song's lyric entries in file order, and the language tag the claim gives a
\* segment: the leading `lyric` and the leading `_` removed, the rest unchanged.
SongLyricEntries(song_id) ==
    LET IsSongLyric(e) ==
            /\ py_int(song_of(e[1])) = song_id
            /\ startswith(e[1][2], "lyric")
    IN  SelectSeq(db.data, IsSongLyric)

PrefixStripped(segment) ==
    LET rest == lstrip(Tail(segment), {"_"})
    IN  IF rest = <<>> THEN <<"jp">> ELSE rest

\* C9: get_lyrics has an entry for exactly the song's `lyric` entries, keyed by
\* (segment without its leading `lyric` and `_`, or `jp`; third segment as an
\* integer); the latest entry in file order wins; indices ascend.
C9_LyricMap ==
    (query.op = "get_lyrics" /\ query.pc = "ok") =>
        LET E == SongLyricEntries(query.song)
            KeyOf(j) == <<PrefixStripped(E[j][1][2]), py_int(E[j][1][3])>>
        IN  /\ DictKeys(query.value) = { KeyOf(j) : j \in 1..Len(E) }
            /\ \A j \in 1..Len(E) :
                  (\A k \in (j + 1)..Len(E) : KeyOf(k) # KeyOf(j))
                      => DictGet(query.value, KeyOf(j)) = E[j][2]
            /\ \A j \in 1..Len(query.value), k \in 1..Len(query.value) :
                  j < k => query.value[j][1][2] <= query.value[k][1][2]

\* The lines that are neither blank nor comments, in order.
Significant(lines) ==
    LET Counts(l) ==
            /\ \E j \in 1..Len(l) : l[j] \notin Whitespace
            /\ LET first == CHOOSE m \in 1..Len(l) :
                               l[m] \notin Whitespace /\ \A o \in 1..(m - 1) : l[o] \in Whitespace
               IN  l[first] # "#"
    IN  SelectSeq(lines, Counts)

RECURSIVE JoinDots(_)
JoinDots(segments) ==
    IF Len(segments) = 1 THEN segments[1]
    ELSE segments[1] \o <<".">> \o JoinDots(Tail(segments))

Has(s, tok) == \E j \in 1..Len(s) : s[j] = tok

\* C10: when some non-blank, non-comment line has no `=`, parse fails and delivers
\* no entries; otherwise it returns one entry per such line, in order, the line
\* split at its first `=` and the key at every `.`.
C10_Parse ==
    db.pc # "idle" =>
        LET sig == Significant(items)
        IN  IF \E j \in 1..Len(sig) : ~Has(sig[j], "=")
            THEN db.pc = "error" /\ db.data = <<>>
            ELSE /\ db.pc = "ok"
                 /\ Len(db.data) = Len(sig)
                 /\ \A j \in 1..Len(sig) :
                       LET key == db.data[j][1]
                           value == db.data[j][2]
                       IN  /\ Len(key) >= 1
                           /\ JoinDots(key) \o <<"=">> \o value = strip(sig[j], Whitespace)
                           /\ \A n \in 1..Len(key) : ~Has(key[n], "=") /\ ~Has(key[n], ".")

\* A well-formed line followed by a line without `=`: an error and no entries.
C10_Witness ==
    /\ db.pc = "error" /\ db.data = <<>>
    /\ Len(items) >= 2
    /\ Has(items[1], "=") /\ ~is_comment(items[1])

(***************************************************************************)
(* SpecBatch: convert_all over the songs of a database.                    *)
(***************************************************************************)
InitBatch ==
    /\ \E n \in 1..MaxSongs :
          /\ items = BatchDb(n)
          /\ \E on_disk \in SUBSET { ScriptPath(j) : j \in 1..n } :
                fs \in [on_disk -> BatchStreams]
    /\ db = [pc |-> "idle", data |-> <<>>]
    /\ query = [op |-> "none"]
    /\ batch = [pc |-> "idle"]
    /\ CodecIdle /\ TimesIdle

ConvertAllStart ==
    /\ batch.pc = "idle"
    /\ db' = parse(items)
    /\ batch' = convert_all_start(items, fs)
    /\ UNCHANGED <<items, query, fs, codecVars, timesVars>>

ConvertAllNext ==
    /\ batch.pc = "loop"
    /\ batch' = convert_all_next(db.data, fs, batch)
    /\ UNCHANGED <<items, db, query, fs, codecVars, timesVars>>

NextBatch == ConvertAllStart \/ ConvertAllNext

SpecBatch == InitBatch /\ [][NextBatch]_vars

\* A song converts on its own when its script decodes and its lyrics assemble.
ConvertsAlone(song_id, path) ==
    /\ parse_dsc(fs[path]).pc = "done"
    /\ get_song_name(db.data, song_id).pc = "ok"
    /\ create_lyrics(parse_dsc(fs[path]).out, db.data, song_id).pc = "ok"

OutputWritten(song_id, path) ==
    LET lyrics == create_lyrics(parse_dsc(fs[path]).out, db.data, song_id).value
    IN  \A lang \in DOMAIN lyrics :
            \E f \in batch.written :
                f.song = song_id /\ f.lang = lang /\ f.lyrics = lyrics[lang]

\* C8: when one song's conversion fails only that song is given up: once
\* convert_all has ended, every song that converts on its own has its output.
C8_FailureIsolation ==
    (batch.pc \in {"done", "failed"} /\ db.pc = "ok") =>
        \A j \in 1..Len(batch.files) :
            ConvertsAlone(batch.files[j][1], batch.files[j][2][1])
                => OutputWritten(batch.files[j][1], batch.files[j][2][1])

====
